---- MODULE Spec2Model ----
(***************************************************************************)
(* Model of tui_state_monitor (src/src/main.rs): the status table App, its *)
(* update operation, the ingest task (subscriber_callback) and the render  *)
(* task (spawn_monitor) sharing one Arc<Mutex<App>>.                       *)
(*                                                                         *)
(* Strings that the code only compares (interface_type, state) are TLA+    *)
(* strings.  The name field, which the code splits and parses, is a        *)
(* sequence of one-character strings.                                      *)
(***************************************************************************)
EXTENDS Integers, Sequences, FiniteSets, TLC

(***************************************************************************)
(* Bounds of the model.                                                    *)
(***************************************************************************)
\* largest ordinal a report may carry (caps the length of the vectors)
MaxOrd == 2

(***************************************************************************)
(* enum State { Active, Inactive }, Default = Inactive                     *)
(***************************************************************************)
Active == "State::Active"
Inactive == "State::Inactive"

(***************************************************************************)
(* Option<T>: None is the empty sequence, Some(x) the one-element one.     *)
(***************************************************************************)
None == << >>
Some(x) == << x >>

SetMax(S) == CHOOSE m \in S : \A n \in S : n <= m

(***************************************************************************)
(* str::split_whitespace().last(): the last maximal run of non-whitespace  *)
(* characters, None when the string has none.                              *)
(***************************************************************************)
IsWhitespace(c) == c \in {" ", "\t", "\n"}

SplitWhitespaceLast(name) ==
    LET nonws == {i \in 1..Len(name) : ~IsWhitespace(name[i])}
    IN  IF nonws = {} THEN None
        ELSE LET e  == SetMax(nonws)
                 ws == {i \in 1..e : IsWhitespace(name[i])}
                 s  == IF ws = {} THEN 1 ELSE SetMax(ws) + 1
             IN  Some(SubSeq(name, s, e))

(***************************************************************************)
(* str::parse::<usize>(): an optional leading '+', then one or more        *)
(* decimal digits; anything else (empty, a lone sign, '-', a letter) is an *)
(* error.  Tokens here are shorter than 20 digits, so the overflow error   *)
(* of a 64-bit usize cannot occur.                                         *)
(***************************************************************************)
Digits == {"0", "1", "2", "3", "4", "5", "6", "7", "8", "9"}

DigitVal(c) ==
    CASE c = "0" -> 0 [] c = "1" -> 1 [] c = "2" -> 2 [] c = "3" -> 3
      [] c = "4" -> 4 [] c = "5" -> 5 [] c = "6" -> 6 [] c = "7" -> 7
      [] c = "8" -> 8 [] c = "9" -> 9

RECURSIVE DecimalValue(_)
DecimalValue(ds) ==
    IF ds = << >> THEN 0
    ELSE 10 * DecimalValue(SubSeq(ds, 1, Len(ds) - 1)) + DigitVal(ds[Len(ds)])

ParseUsize(tok) ==
    IF tok = << >> THEN None
    ELSE IF Len(tok) = 1 /\ tok[1] \in {"+", "-"} THEN None
    ELSE LET ds == IF tok[1] = "+" THEN Tail(tok) ELSE tok
         IN  IF \A i \in 1..Len(ds) : ds[i] \in Digits
             THEN Some(DecimalValue(ds))
             ELSE None

\* name.split_whitespace().last().and_then(|n| n.parse::<usize>().ok())
ParsePos(name) ==
    LET last == SplitWhitespaceLast(name)
    IN  IF last = None THEN None ELSE ParseUsize(last[1])

(***************************************************************************)
(* Vec::resize(new_len, value)                                             *)
(***************************************************************************)
Resize(states, new_len, value) ==
    IF new_len > Len(states)
    THEN states \o [i \in 1..(new_len - Len(states)) |-> value]
    ELSE SubSeq(states, 1, new_len)

(***************************************************************************)
(* Variants of update_specific_state with one slip each.                   *)
(***************************************************************************)
\* resizes without asking whether pos exceeds the length: a shorter pos truncates
update_specific_state_always_resize(states, name, state) ==
    LET p == ParsePos(name)
    IN  IF p # None /\ p[1] > 0
        THEN [Resize(states, p[1], Inactive) EXCEPT ![p[1]] = state]
        ELSE states

\* rebuilds the vector when it has to grow, losing the slots it had
update_specific_state_rebuild(states, name, state) ==
    LET p == ParsePos(name)
    IN  IF p # None /\ p[1] > 0
        THEN LET grown == IF p[1] > Len(states)
                          THEN [i \in 1..p[1] |-> Inactive]
                          ELSE states
             IN  [grown EXCEPT ![p[1]] = state]
        ELSE states

\* fills the new slots with the reported state instead of Inactive
update_specific_state_fill_state(states, name, state) ==
    LET p == ParsePos(name)
    IN  IF p # None /\ p[1] > 0
        THEN LET grown == IF p[1] > Len(states)
                          THEN Resize(states, p[1], state)
                          ELSE states
             IN  [grown EXCEPT ![p[1]] = state]
        ELSE states

\* pushes the state when pos exceeds the length instead of resizing to pos
update_specific_state_push(states, name, state) ==
    LET p == ParsePos(name)
    IN  IF p # None /\ p[1] > 0
        THEN IF p[1] > Len(states)
             THEN Append(states, state)
             ELSE [states EXCEPT ![p[1]] = state]
        ELSE states

\* takes ordinal 0 for the first slot
update_specific_state_zero(states, name, state) ==
    LET p == ParsePos(name)
    IN  IF p # None
        THEN LET pos   == IF p[1] = 0 THEN 1 ELSE p[1]
                 grown == IF pos > Len(states)
                          THEN Resize(states, pos, Inactive)
                          ELSE states
             IN  [grown EXCEPT ![pos] = state]
        ELSE states

(***************************************************************************)
(* App::update_specific_state                                              *)
(***************************************************************************)
update_specific_state(states, name, state) ==
    LET p == ParsePos(name)
    IN  IF p # None /\ p[1] > 0
        THEN LET pos   == p[1]
                 grown == IF pos > Len(states)
                          THEN Resize(states, pos, Inactive)
                          ELSE states
             IN  [grown EXCEPT ![pos] = state]
        ELSE states

(***************************************************************************)
(* App::new and App::update_state                                          *)
(***************************************************************************)
App_new ==
    [server_states |-> << >>, publisher_states |-> << >>,
     subscriber_states |-> << >>]

\* a variant that compares the state string without regard to case
StateOf_ignore_case(s) ==
    IF s \in {"Active", "active", "ACTIVE"} THEN Active ELSE Inactive

\* let state = if interface.state == "Active" { Active } else { Inactive }
StateOf(s) == IF s = "Active" THEN Active ELSE Inactive

update_state(self, interface) ==
    LET state == StateOf(interface.state)
        name  == interface.name
    IN  CASE interface.interface_type = "server" ->
               [self EXCEPT !.server_states =
                   update_specific_state(self.server_states, name, state)]
          [] interface.interface_type = "publisher" ->
               [self EXCEPT !.publisher_states =
                   update_specific_state(self.publisher_states, name, state)]
          [] interface.interface_type = "subscriber" ->
               [self EXCEPT !.subscriber_states =
                   update_specific_state(self.subscriber_states, name, state)]
          [] OTHER -> self

(***************************************************************************)
(* The ordinal a report names, read off the name as the data model words   *)
(* it: the trailing whitespace-separated token written in decimal digits;  *)
(* 0 when the name has no such token.  A report is valid when its          *)
(* interface_type is a known category and that ordinal is positive.        *)
(***************************************************************************)
TrailingOrdinal(name) ==
    LET ends == {e \in 1..Len(name) :
                    name[e] # " " /\ \A j \in (e + 1)..Len(name) : name[j] = " "}
    IN  IF ends = {} THEN 0
        ELSE LET e      == CHOOSE x \in ends : TRUE
                 starts == {b \in 1..e : \A j \in b..e : name[j] # " "}
                 b      == CHOOSE x \in starts : \A y \in starts : x <= y
                 tok    == SubSeq(name, b, e)
             IN  IF \A i \in 1..Len(tok) : tok[i] \in Digits
                 THEN DecimalValue(tok)
                 ELSE 0

ValidReport(r) ==
    r.interface_type \in {"server", "publisher", "subscriber"}
    /\ TrailingOrdinal(r.name) > 0

(***************************************************************************)
(* Inputs: the reports (struct InterfaceState) the model draws from.  A    *)
(* name is a label, a token and optional trailing whitespace; the tokens   *)
(* are the ordinals 0..MaxOrd written plainly, an ordinal with a leading   *)
(* zero and with a sign, and tokens that are no number at all.             *)
(***************************************************************************)
DigitChar(d) ==
    CASE d = 0 -> "0" [] d = 1 -> "1" [] d = 2 -> "2" [] d = 3 -> "3"
      [] d = 4 -> "4" [] d = 5 -> "5" [] d = 6 -> "6" [] d = 7 -> "7"
      [] d = 8 -> "8" [] d = 9 -> "9"

NameLabels == { << >>, << "s", " " >> }
NameTrails == { << >>, << " " >> }
NameTokens ==
    { << >>, << "a", "b", "c" >>, << "s", "1" >>, << "+" >>, << "-", "1" >>,
      << "+", "1" >>, << "0", "1" >>, << "+", "0" >> }
    \cup { << DigitChar(d) >> : d \in 0..MaxOrd }

Names == { l \o t \o w : l \in NameLabels, t \in NameTokens, w \in NameTrails }

InterfaceTypes == {"server", "publisher", "subscriber", "Server"}
StateStrings == {"Active", "Inactive", "active", ""}

InterfaceStates ==
    [name : Names, interface_type : InterfaceTypes, state : StateStrings]

Categories == {"server", "publisher", "subscriber"}

\* the vector of a table that holds the category of an interface_type
CategoryStates(app, t) ==
    CASE t = "server" -> app.server_states
      [] t = "publisher" -> app.publisher_states
      [] t = "subscriber" -> app.subscriber_states

(***************************************************************************)
(* The payload of a r2r::std_msgs::msg::String, as the JSON text it holds: *)
(* text that is no JSON, a JSON object, or a JSON array.  A field is       *)
(* absent, a JSON string or a JSON number; for an array the three fields   *)
(* are its first three items.  extra says that an object has a fourth,     *)
(* unknown key, or an array a fourth item.                                 *)
(***************************************************************************)
JString(v) == [json |-> "string", value |-> v]
JNumber(v) == [json |-> "number", value |-> v]
JAbsent(v) == [json |-> "absent", value |-> v]

Object(r, extra) ==
    [kind |-> "object", name |-> JString(r.name),
     interface_type |-> JString(r.interface_type), state |-> JString(r.state),
     extra |-> extra]

Array(r, extra) == [Object(r, extra) EXCEPT !.kind = "array"]

Text == [kind |-> "text", name |-> JAbsent(<< >>), interface_type |-> JAbsent(""),
         state |-> JAbsent(""), extra |-> FALSE]

(***************************************************************************)
(* serde_json::from_str::<InterfaceState>: #[derive(Deserialize)] reads a  *)
(* struct from an object that has every field as a string (unknown keys    *)
(* are skipped) or from an array of exactly the three strings; everything  *)
(* else is an error.  Ok(x) is Some(x), Err is None.                       *)
(***************************************************************************)
from_str(data) ==
    LET strings == /\ data.name.json = "string"
                   /\ data.interface_type.json = "string"
                   /\ data.state.json = "string"
        value   == [name |-> data.name.value,
                    interface_type |-> data.interface_type.value,
                    state |-> data.state.value]
    IN  CASE data.kind = "object" -> IF strings THEN Some(value) ELSE None
          [] data.kind = "array" ->
               IF strings /\ ~data.extra THEN Some(value) ELSE None
          [] OTHER -> None

(***************************************************************************)
(* The payloads the transport delivers in the concurrent specification.    *)
(***************************************************************************)
IngestNames == { << "s", " ", "1" >>, << "s", " ", DigitChar(MaxOrd) >> }

IngestReports ==
    [name : IngestNames, interface_type : {"server"}, state : {"Active", "Inactive"}]
    \cup [name : { << "s", " ", "1" >> }, interface_type : {"publisher"},
          state : {"Active"}]

SampleReport ==
    [name |-> << "s", " ", "1" >>, interface_type |-> "server", state |-> "Active"]

Payloads ==
    { Object(r, FALSE) : r \in IngestReports }
    \cup { Object(SampleReport, TRUE), Array(SampleReport, FALSE),
           Array(SampleReport, TRUE), Text,
           [Object(SampleReport, FALSE) EXCEPT !.state = JAbsent("")],
           [Object(SampleReport, FALSE) EXCEPT !.name = JNumber(<< >>)] }

\* messages the transport delivers before the model stops it
MaxMsgs == 2
\* errors the ingest loop logs after the stream has ended before the model stops counting
MaxLog == 1

(***************************************************************************)
(* State of the sequential specification SpecUpdate: one table folded over *)
(* a sequence of reports, one update_state call at a time.                 *)
(***************************************************************************)
VARIABLES
    u_app,      \* the table: App::new(), then what each call returned
    u_self,     \* Some(self) of the call that has just run, None between calls
    u_report,   \* Some(interface) of the call that has just run, None between calls
    u_max       \* per category, the largest ordinal a valid report has carried

uvars == << u_app, u_self, u_report, u_max >>

(***************************************************************************)
(* State of the concurrent specification Spec.                             *)
(***************************************************************************)
VARIABLES
    shared_app,       \* the App inside Arc<Mutex<App>>
    app_lock,         \* who holds the mutex: "free", "ingest" or "render"
    \* subscriber_callback
    i_pc,             \* position of the ingest loop
    i_msg,            \* Some(msg.data) of the message being handled
    shared_app_local, \* the clone taken at line 156
    i_data,           \* the Result of from_str at line 157
    i_new,            \* the value of shared_app_local.update_state(..)
    stream_ended,     \* TRUE once the stream yields None
    i_logged,         \* errors logged by the None arm
    received,         \* history: the payloads received so far
    applied,          \* history: the reports whose store has completed
    \* spawn_monitor
    r_pc,             \* position of the render task
    app,              \* Some(snapshot) taken at line 178
    r_seen,           \* history: Len(applied) when the snapshot was taken
    r_event,          \* Some(event) read at line 240 in this iteration
    frame,            \* Some(table) last drawn on the screen
    raw_mode,         \* terminal in raw mode
    alt_screen,       \* terminal on the alternate screen
    quit_seen,        \* history: the key 'q' has been read
    restored          \* history: the restoration steps executed, in order

ivars == << i_pc, i_msg, shared_app_local, i_data, i_new, stream_ended,
            i_logged, received, applied >>
rvars == << r_pc, app, r_seen, r_event, frame, raw_mode, alt_screen, quit_seen, restored >>
cvars == << shared_app, app_lock, ivars, rvars >>

(***************************************************************************)
(* State of the process specification SpecProc: main, the tokio runtime,   *)
(* the task of spawn_subscriber, the thread that spins the node and the    *)
(* Mutex<r2r::Node> they share.                                            *)
(***************************************************************************)
VARIABLES
    m_pc,         \* position of main
    exit_status,  \* Some(status) once the process has exited
    workers,      \* worker threads of the tokio runtime
    runq,         \* tasks that are ready to run and wait for a worker
    running,      \* tasks that occupy a worker thread
    node_lock,    \* who holds the node mutex: "free", "subscriber" or "spin"
    s_pc,         \* position of the spawn_subscriber task
    spin_pc,      \* position of the thread of lines 118-123
    chan          \* payloads delivered to the subscriber stream, not yet taken

pvars == << m_pc, exit_status, workers, runq, running, node_lock, s_pc, spin_pc, chan >>

vars == << uvars, cvars, pvars >>

NoMax == [c \in Categories |-> 0]

UIdle ==
    /\ u_app = App_new
    /\ u_self = None
    /\ u_report = None
    /\ u_max = NoMax

CIdle ==
    /\ shared_app = App_new
    /\ app_lock = "free"
    /\ i_pc = "next"
    /\ i_msg = None
    /\ shared_app_local = None
    /\ i_data = None
    /\ i_new = None
    /\ stream_ended = FALSE
    /\ i_logged = 0
    /\ received = << >>
    /\ applied = << >>
    /\ r_pc = "enable_raw_mode"
    /\ app = None
    /\ r_seen = 0
    /\ r_event = None
    /\ frame = None
    /\ raw_mode = FALSE
    /\ alt_screen = FALSE
    /\ quit_seen = FALSE
    /\ restored = << >>

\* nothing has run yet; the runtime has w worker threads
PIdle(w) ==
    /\ m_pc = "Context::create"
    /\ exit_status = None
    /\ workers = w
    /\ runq = {}
    /\ running = {}
    /\ node_lock = "free"
    /\ s_pc = "lock"
    /\ spin_pc = "unspawned"
    /\ chan = << >>

UInit == UIdle /\ CIdle /\ PIdle(1)

\* one call app.update_state(interface); self and interface are moved in
UpdateState ==
    /\ u_report = None
    /\ \E r \in InterfaceStates :
        /\ u_self' = Some(u_app)
        /\ u_report' = Some(r)
        /\ u_app' = update_state(u_app, r)
    /\ UNCHANGED << u_max, cvars, pvars >>

\* the call returns: the moved-in self and interface are dropped
UpdateReturn ==
    /\ u_report # None
    /\ u_self' = None
    /\ u_report' = None
    /\ UNCHANGED << u_app, u_max, cvars, pvars >>

UNext == UpdateState \/ UpdateReturn

SpecUpdate == UInit /\ [][UNext]_vars

(***************************************************************************)
(* SpecValid: the same fold, over valid reports only, recording the        *)
(* largest ordinal reported for each category.                             *)
(***************************************************************************)
ValidInterfaceStates == {r \in InterfaceStates : ValidReport(r)}

UpdateStateValid ==
    /\ u_report = None
    /\ \E r \in ValidInterfaceStates :
        /\ u_self' = Some(u_app)
        /\ u_report' = Some(r)
        /\ u_app' = update_state(u_app, r)
        /\ u_max' = IF TrailingOrdinal(r.name) > u_max[r.interface_type]
                    THEN [u_max EXCEPT ![r.interface_type] = TrailingOrdinal(r.name)]
                    ELSE u_max
    /\ UNCHANGED << cvars, pvars >>

VNext == UpdateStateValid \/ UpdateReturn

SpecValid == UInit /\ [][VNext]_vars

(***************************************************************************)
(* #[derive(Clone)] on App: the copy that lock().unwrap().clone() returns. *)
(***************************************************************************)
\* a variant that hands out a fresh table instead of a copy
Clone_default(a) == App_new

Clone(a) == a

(***************************************************************************)
(* subscriber_callback: the ingest loop.                                   *)
(***************************************************************************)
\* the transport closes the stream
StreamEnd ==
    /\ ~stream_ended
    /\ stream_ended' = TRUE
    /\ UNCHANGED << uvars, pvars, shared_app, app_lock, rvars, i_pc, i_msg,
                    shared_app_local, i_data, i_new, i_logged, received, applied >>

\* subscriber.next().await yields Some(msg)
IngestNext ==
    /\ i_pc = "next"
    /\ ~stream_ended
    /\ Len(received) < MaxMsgs
    /\ \E data \in Payloads :
        /\ i_msg' = Some(data)
        /\ received' = Append(received, data)
    /\ i_pc' = "lock_clone"
    /\ UNCHANGED << uvars, pvars, shared_app, app_lock, rvars, shared_app_local,
                    i_data, i_new, stream_ended, i_logged, applied >>

\* subscriber.next().await yields None: log the error and loop
IngestNone ==
    /\ i_pc = "next"
    /\ stream_ended
    /\ i_logged < MaxLog
    /\ i_logged' = i_logged + 1
    /\ UNCHANGED << uvars, pvars, shared_app, app_lock, rvars, i_pc, i_msg,
                    shared_app_local, i_data, i_new, stream_ended, received,
                    applied >>

\* line 156: shared_app.lock().unwrap()
IngestLockClone ==
    /\ i_pc = "lock_clone"
    /\ app_lock = "free"
    /\ app_lock' = "ingest"
    /\ i_pc' = "clone"
    /\ UNCHANGED << uvars, pvars, shared_app, rvars, i_msg, shared_app_local, i_data,
                    i_new, stream_ended, i_logged, received, applied >>

\* line 156: .clone(), and the guard is dropped at the end of the statement
IngestClone ==
    /\ i_pc = "clone"
    /\ app_lock = "ingest"
    /\ shared_app_local' = Some(Clone(shared_app))
    /\ app_lock' = "free"
    /\ i_pc' = "decode"
    /\ UNCHANGED << uvars, pvars, shared_app, rvars, i_msg, i_data, i_new,
                    stream_ended, i_logged, received, applied >>

\* a variant that stores a default table when the payload does not decode
IngestDecode_reset ==
    /\ i_pc = "decode"
    /\ LET data == from_str(i_msg[1])
       IN  IF data # None
           THEN /\ i_data' = data
                /\ i_pc' = "update"
                /\ UNCHANGED << i_msg, shared_app_local, i_new >>
           ELSE /\ i_data' = None
                /\ i_new' = Some(App_new)
                /\ i_pc' = "lock_store"
                /\ UNCHANGED << i_msg, shared_app_local >>
    /\ UNCHANGED << uvars, pvars, shared_app, app_lock, rvars, stream_ended,
                    i_logged, received, applied >>

\* lines 157-158: decode the payload; on Err the message is dropped
IngestDecode ==
    /\ i_pc = "decode"
    /\ LET data == from_str(i_msg[1])
       IN  IF data # None
           THEN /\ i_data' = data
                /\ i_pc' = "update"
                /\ UNCHANGED << i_msg, shared_app_local >>
           ELSE /\ i_data' = None
                /\ i_msg' = None
                /\ shared_app_local' = None
                /\ i_pc' = "next"
    /\ UNCHANGED << uvars, pvars, shared_app, app_lock, rvars, i_new, stream_ended,
                    i_logged, received, applied >>

\* line 159, right-hand side: shared_app_local.update_state(interface_state)
IngestUpdate ==
    /\ i_pc = "update"
    /\ i_new' = Some(update_state(shared_app_local[1], i_data[1]))
    /\ i_pc' = "lock_store"
    /\ UNCHANGED << uvars, pvars, shared_app, app_lock, rvars, i_msg,
                    shared_app_local, i_data, stream_ended, i_logged, received,
                    applied >>

\* line 159, left-hand side: shared_app.lock().unwrap()
IngestLockStore ==
    /\ i_pc = "lock_store"
    /\ app_lock = "free"
    /\ app_lock' = "ingest"
    /\ i_pc' = "store"
    /\ UNCHANGED << uvars, pvars, shared_app, rvars, i_msg, shared_app_local, i_data,
                    i_new, stream_ended, i_logged, received, applied >>

\* the lengths of the three vectors of a table
Lengths(a) ==
    << Len(a.server_states), Len(a.publisher_states), Len(a.subscriber_states) >>

\* a table grown to the lengths of another, the new slots Inactive
GrownTo(a, b) ==
    [server_states |-> Resize(a.server_states, Len(b.server_states), Inactive),
     publisher_states |->
         Resize(a.publisher_states, Len(b.publisher_states), Inactive),
     subscriber_states |->
         Resize(a.subscriber_states, Len(b.subscriber_states), Inactive)]

\* a variant that updates the shared table in place in two critical
\* sections: it grows the vector, releases the mutex, and writes the slot
\* under a second acquisition
IngestStore_in_place ==
    /\ i_pc = "store"
    /\ app_lock = "ingest"
    /\ app_lock' = "free"
    /\ IF Lengths(shared_app) # Lengths(i_new[1])
       THEN /\ shared_app' = GrownTo(shared_app, i_new[1])
            /\ i_pc' = "lock_store"
            /\ UNCHANGED << i_msg, shared_app_local, i_data, i_new, applied >>
       ELSE /\ shared_app' = i_new[1]
            /\ applied' = IF i_data = None THEN applied
                          ELSE Append(applied, i_data[1])
            /\ i_msg' = None
            /\ shared_app_local' = None
            /\ i_data' = None
            /\ i_new' = None
            /\ i_pc' = "next"
    /\ UNCHANGED << uvars, pvars, rvars, stream_ended, i_logged, received >>

\* a variant in which the render task's snapshot is a reference to the
\* shared table rather than a copy: a store shows through it
IngestStore_aliased ==
    /\ i_pc = "store"
    /\ app_lock = "ingest"
    /\ shared_app' = i_new[1]
    /\ app' = IF app = None THEN None ELSE Some(i_new[1])
    /\ app_lock' = "free"
    /\ applied' = IF i_data = None THEN applied ELSE Append(applied, i_data[1])
    /\ i_msg' = None
    /\ shared_app_local' = None
    /\ i_data' = None
    /\ i_new' = None
    /\ i_pc' = "next"
    /\ UNCHANGED << uvars, pvars, r_pc, r_seen, r_event, frame, raw_mode, alt_screen,
                    quit_seen, restored, stream_ended, i_logged, received >>

\* line 159: *guard = new table, and the guard is dropped
IngestStore ==
    /\ i_pc = "store"
    /\ app_lock = "ingest"
    /\ shared_app' = i_new[1]
    /\ app_lock' = "free"
    /\ applied' = IF i_data = None THEN applied ELSE Append(applied, i_data[1])
    /\ i_msg' = None
    /\ shared_app_local' = None
    /\ i_data' = None
    /\ i_new' = None
    /\ i_pc' = "next"
    /\ UNCHANGED << uvars, pvars, rvars, stream_ended, i_logged, received >>

Ingest ==
    \/ StreamEnd
    \/ IngestNext
    \/ IngestNone
    \/ IngestLockClone
    \/ IngestClone
    \/ IngestDecode
    \/ IngestUpdate
    \/ IngestLockStore
    \/ IngestStore

(***************************************************************************)
(* spawn_monitor: the render task.  Every terminal call can fail; the `?`  *)
(* then returns the error and the task ends ("failed").                    *)
(***************************************************************************)
RenderOnly == UNCHANGED << uvars, pvars, shared_app, app_lock, ivars >>

\* line 171: enable_raw_mode()?
RenderEnableRawMode ==
    /\ r_pc = "enable_raw_mode"
    /\ \/ /\ raw_mode' = TRUE
          /\ r_pc' = "EnterAlternateScreen"
       \/ /\ r_pc' = "failed"
          /\ UNCHANGED raw_mode
    /\ UNCHANGED << r_event, app, r_seen, frame, alt_screen, quit_seen, restored >>
    /\ RenderOnly

\* line 173: execute!(stdout, EnterAlternateScreen)?
RenderEnterAlternateScreen ==
    /\ r_pc = "EnterAlternateScreen"
    /\ \/ /\ alt_screen' = TRUE
          /\ r_pc' = "Terminal::new"
       \/ /\ r_pc' = "failed"
          /\ UNCHANGED alt_screen
    /\ UNCHANGED << r_event, app, r_seen, frame, raw_mode, quit_seen, restored >>
    /\ RenderOnly

\* line 175: Terminal::new(backend)?
RenderTerminalNew ==
    /\ r_pc = "Terminal::new"
    /\ \/ r_pc' = "lock"
       \/ r_pc' = "failed"
    /\ UNCHANGED << r_event, app, r_seen, frame, raw_mode, alt_screen, quit_seen, restored >>
    /\ RenderOnly

\* line 178: shared_app.lock().unwrap()
RenderLock ==
    /\ r_pc = "lock"
    /\ app_lock = "free"
    /\ app_lock' = "render"
    /\ r_pc' = "clone"
    /\ r_event' = None
    /\ UNCHANGED << uvars, pvars, shared_app, ivars, app, r_seen, frame, raw_mode,
                    alt_screen, quit_seen, restored >>

\* a variant that binds the guard to a variable, so the mutex stays locked
\* while the frame is drawn
RenderClone_hold ==
    /\ r_pc = "clone"
    /\ app_lock = "render"
    /\ app' = Some(Clone(shared_app))
    /\ r_seen' = Len(applied)
    /\ r_pc' = "draw"
    /\ UNCHANGED << uvars, pvars, shared_app, app_lock, ivars, r_event, frame,
                    raw_mode, alt_screen, quit_seen, restored >>

\* line 178: .clone(), and the guard is dropped at the end of the statement
RenderClone ==
    /\ r_pc = "clone"
    /\ app_lock = "render"
    /\ app' = Some(Clone(shared_app))
    /\ r_seen' = Len(applied)
    /\ app_lock' = "free"
    /\ r_pc' = "draw"
    /\ UNCHANGED << uvars, pvars, shared_app, ivars, r_event, frame, raw_mode,
                    alt_screen, quit_seen, restored >>

\* lines 179-237: terminal.draw(..)?
RenderDraw ==
    /\ r_pc = "draw"
    /\ \/ /\ frame' = app
          /\ r_pc' = "poll"
       \/ /\ r_pc' = "failed"
          /\ UNCHANGED frame
    /\ UNCHANGED << r_event, app, r_seen, raw_mode, alt_screen, quit_seen, restored >>
    /\ RenderOnly

\* line 239: event::poll(100 ms)?: an event is ready, the timeout passes, or Err
RenderPoll ==
    /\ r_pc = "poll"
    /\ \/ r_pc' = "read"
       \/ r_pc' = "lock"
       \/ r_pc' = "failed"
    /\ UNCHANGED << r_event, app, r_seen, frame, raw_mode, alt_screen, quit_seen, restored >>
    /\ RenderOnly

\* the events event::read() returns: key events (press or release) and
\* events that are no key event
Events ==
    { [event |-> "Key", code |-> "q", kind |-> "Press"],
      [event |-> "Key", code |-> "q", kind |-> "Release"],
      [event |-> "Key", code |-> "x", kind |-> "Press"],
      [event |-> "Resize", code |-> "", kind |-> ""] }

\* if let CEvent::Key(key) = .. { if key.code == KeyCode::Char('q') { break } }
IsQuit(e) == e.event = "Key" /\ e.code = "q"

\* a variant that leaves the loop on any key event
RenderRead_any_key ==
    /\ r_pc = "read"
    /\ \/ \E e \in Events :
            /\ r_event' = Some(e)
            /\ IF e.event = "Key"
               THEN /\ quit_seen' = (quit_seen \/ IsQuit(e))
                    /\ r_pc' = "disable_raw_mode"
               ELSE /\ r_pc' = "lock"
                    /\ UNCHANGED quit_seen
       \/ /\ r_pc' = "failed"
          /\ UNCHANGED << r_event, quit_seen >>
    /\ UNCHANGED << app, r_seen, frame, raw_mode, alt_screen, restored >>
    /\ RenderOnly

\* lines 240-244: event::read()?; break on the key 'q'
RenderRead ==
    /\ r_pc = "read"
    /\ \/ \E e \in Events :
            /\ r_event' = Some(e)
            /\ IF IsQuit(e)
               THEN /\ quit_seen' = TRUE
                    /\ r_pc' = "disable_raw_mode"
               ELSE /\ r_pc' = "lock"
                    /\ UNCHANGED quit_seen
       \/ /\ r_pc' = "failed"
          /\ UNCHANGED << r_event, quit_seen >>
    /\ UNCHANGED << app, r_seen, frame, raw_mode, alt_screen, restored >>
    /\ RenderOnly

\* line 248: disable_raw_mode()?
RenderDisableRawMode ==
    /\ r_pc = "disable_raw_mode"
    /\ restored' = Append(restored, "disable_raw_mode")
    /\ \/ /\ raw_mode' = FALSE
          /\ r_pc' = "LeaveAlternateScreen"
       \/ /\ r_pc' = "failed"
          /\ UNCHANGED raw_mode
    /\ UNCHANGED << r_event, app, r_seen, frame, alt_screen, quit_seen >>
    /\ RenderOnly

\* line 249: execute!(terminal.backend_mut(), LeaveAlternateScreen)?
RenderLeaveAlternateScreen ==
    /\ r_pc = "LeaveAlternateScreen"
    /\ restored' = Append(restored, "LeaveAlternateScreen")
    /\ \/ /\ alt_screen' = FALSE
          /\ r_pc' = "show_cursor"
       \/ /\ r_pc' = "failed"
          /\ UNCHANGED alt_screen
    /\ UNCHANGED << r_event, app, r_seen, frame, raw_mode, quit_seen >>
    /\ RenderOnly

\* lines 250-252: terminal.show_cursor()?; Ok(())
RenderShowCursor ==
    /\ r_pc = "show_cursor"
    /\ restored' = Append(restored, "show_cursor")
    /\ \/ r_pc' = "done"
       \/ r_pc' = "failed"
    /\ UNCHANGED << r_event, app, r_seen, frame, raw_mode, alt_screen, quit_seen >>
    /\ RenderOnly

Render ==
    \/ RenderEnableRawMode
    \/ RenderEnterAlternateScreen
    \/ RenderTerminalNew
    \/ RenderLock
    \/ RenderClone
    \/ RenderDraw
    \/ RenderPoll
    \/ RenderRead
    \/ RenderDisableRawMode
    \/ RenderLeaveAlternateScreen
    \/ RenderShowCursor

Init == UIdle /\ CIdle /\ PIdle(1)

Next == Ingest \/ Render

Spec == Init /\ [][Next]_vars

(***************************************************************************)
(* The process: main (lines 98-128) on the thread that blocks on the       *)
(* runtime, the three tokio tasks on the runtime's worker threads, and the *)
(* thread of lines 118-123 that spins the node.                            *)
(***************************************************************************)
MaxWorkers == 2

\* the tasks of lines 108, 115 and 140
Tasks == {"subscriber", "monitor", "callback"}

\* what the transport publishes on /monitored_state in this specification
ProcPayloads == { Object(SampleReport, FALSE), Text }

\* the process is alive: main has not returned
Alive == m_pc # "exited"

\* task t occupies a worker thread of the running process
OnWorker(t) == Alive /\ t \in running

ProcOnly == UNCHANGED << uvars, cvars >>

\* r2r::Context::create()?  (line 100): an error returns from main
MainContextCreate ==
    /\ m_pc = "Context::create"
    /\ \/ /\ m_pc' = "Node::create"
          /\ UNCHANGED exit_status
       \/ /\ m_pc' = "exited"
          /\ exit_status' = Some(1)
    /\ UNCHANGED << workers, runq, running, node_lock, s_pc, spin_pc, chan >>
    /\ ProcOnly

\* r2r::Node::create(ctx, "monitor", "")?  (line 101)
MainNodeCreate ==
    /\ m_pc = "Node::create"
    /\ \/ /\ m_pc' = "spawn_subscriber"
          /\ UNCHANGED exit_status
       \/ /\ m_pc' = "exited"
          /\ exit_status' = Some(1)
    /\ UNCHANGED << workers, runq, running, node_lock, s_pc, spin_pc, chan >>
    /\ ProcOnly

\* tokio::task::spawn of spawn_subscriber(..).await.unwrap()  (lines 108-112)
MainSpawnSubscriber ==
    /\ m_pc = "spawn_subscriber"
    /\ runq' = runq \cup {"subscriber"}
    /\ m_pc' = "spawn_monitor"
    /\ UNCHANGED << exit_status, workers, running, node_lock, s_pc, spin_pc, chan >>
    /\ ProcOnly

\* tokio::task::spawn of spawn_monitor(..).await.unwrap()  (line 115)
MainSpawnMonitor ==
    /\ m_pc = "spawn_monitor"
    /\ runq' = runq \cup {"monitor"}
    /\ m_pc' = "thread::spawn"
    /\ UNCHANGED << exit_status, workers, running, node_lock, s_pc, spin_pc, chan >>
    /\ ProcOnly

\* std::thread::spawn of the spin loop (line 118); main then blocks in
\* handle.join() (line 125), which returns when the loop's thread ends: the
\* loop of lines 118-123 has no exit, so Ok(()) of line 127 is not reached
MainThreadSpawn ==
    /\ m_pc = "thread::spawn"
    /\ spin_pc' = "lock"
    /\ m_pc' = "join"
    /\ UNCHANGED << exit_status, workers, runq, running, node_lock, s_pc, chan >>
    /\ ProcOnly

PMain ==
    \/ MainContextCreate
    \/ MainNodeCreate
    \/ MainSpawnSubscriber
    \/ MainSpawnMonitor
    \/ MainThreadSpawn

\* a worker thread that is idle takes a ready task
Schedule(t) ==
    /\ Alive
    /\ t \in runq
    /\ Cardinality(running) < workers
    /\ runq' = runq \ {t}
    /\ running' = running \cup {t}
    /\ UNCHANGED << m_pc, exit_status, workers, node_lock, s_pc, spin_pc, chan >>
    /\ ProcOnly

\* arc_node.lock().unwrap()  (lines 134-136): the worker thread blocks
\* until the node mutex is free
SubscriberLock ==
    /\ Alive
    /\ "subscriber" \in running
    /\ s_pc = "lock"
    /\ node_lock = "free"
    /\ node_lock' = "subscriber"
    /\ s_pc' = "subscribe"
    /\ UNCHANGED << m_pc, exit_status, workers, runq, running, spin_pc, chan >>
    /\ ProcOnly

\* .subscribe(..)?  (line 137): the guard is dropped at the end of the
\* statement; an error returns from spawn_subscriber and the unwrap of line
\* 111 panics, which ends the task and nothing else
SubscriberSubscribe ==
    /\ Alive
    /\ "subscriber" \in running
    /\ s_pc = "subscribe"
    /\ node_lock' = "free"
    /\ \/ /\ s_pc' = "spawn"
          /\ UNCHANGED running
       \/ /\ s_pc' = "panicked"
          /\ running' = running \ {"subscriber"}
    /\ UNCHANGED << m_pc, exit_status, workers, runq, spin_pc, chan >>
    /\ ProcOnly

\* tokio::task::spawn of subscriber_callback, then Ok(())  (lines 139-146)
SubscriberSpawn ==
    /\ Alive
    /\ "subscriber" \in running
    /\ s_pc = "spawn"
    /\ runq' = runq \cup {"callback"}
    /\ running' = running \ {"subscriber"}
    /\ s_pc' = "done"
    /\ UNCHANGED << m_pc, exit_status, workers, node_lock, spin_pc, chan >>
    /\ ProcOnly

PSubscriber == SubscriberLock \/ SubscriberSubscribe \/ SubscriberSpawn

\* the subscription of line 137 exists
Subscribed == s_pc \in {"spawn", "done"}

\* the callback task waits in subscriber.next().await for its waker
Parked == s_pc = "done" /\ "callback" \notin running /\ "callback" \notin runq

\* arc_node_clone.lock().unwrap()  (lines 119-121)
SpinLock ==
    /\ Alive
    /\ spin_pc = "lock"
    /\ node_lock = "free"
    /\ node_lock' = "spin"
    /\ spin_pc' = "spin_once"
    /\ UNCHANGED << m_pc, exit_status, workers, runq, running, s_pc, chan >>
    /\ ProcOnly

\* .spin_once(1000ms)  (line 122): hands over a message that has arrived,
\* or times out; the guard is dropped and the loop starts again
SpinOnce ==
    /\ Alive
    /\ spin_pc = "spin_once"
    /\ \/ /\ Subscribed
          /\ Len(chan) + Len(received) < MaxMsgs
          /\ \E data \in ProcPayloads : chan' = Append(chan, data)
          /\ runq' = IF Parked THEN runq \cup {"callback"} ELSE runq
       \/ UNCHANGED << chan, runq >>
    /\ node_lock' = "free"
    /\ spin_pc' = "lock"
    /\ UNCHANGED << m_pc, exit_status, workers, running, s_pc >>
    /\ ProcOnly

PSpin == SpinLock \/ SpinOnce

\* subscriber.next().await  (line 154) with a message in the stream
CallbackNext ==
    /\ i_pc = "next"
    /\ chan # << >>
    /\ i_msg' = Some(Head(chan))
    /\ received' = Append(received, Head(chan))
    /\ chan' = Tail(chan)
    /\ i_pc' = "lock_clone"
    /\ UNCHANGED << uvars, shared_app, app_lock, rvars, shared_app_local,
                    i_data, i_new, stream_ended, i_logged, applied >>
    /\ UNCHANGED << m_pc, exit_status, workers, runq, running, node_lock, s_pc, spin_pc >>

\* subscriber.next().await  (line 154) with none: the task yields its worker
CallbackPending ==
    /\ i_pc = "next"
    /\ chan = << >>
    /\ running' = running \ {"callback"}
    /\ UNCHANGED << m_pc, exit_status, workers, runq, node_lock, s_pc, spin_pc, chan >>
    /\ ProcOnly

\* the task of line 140 runs subscriber_callback on a worker thread
PIngest ==
    \/ OnWorker("callback") /\ CallbackNext
    \/ OnWorker("callback") /\ CallbackPending
    \/ OnWorker("callback") /\ IngestLockClone
    \/ OnWorker("callback") /\ IngestClone
    \/ OnWorker("callback") /\ IngestDecode
    \/ OnWorker("callback") /\ IngestUpdate
    \/ OnWorker("callback") /\ IngestLockStore
    \/ OnWorker("callback") /\ IngestStore

\* spawn_monitor has returned, or the unwrap of line 115 has panicked: the
\* task ends and gives back its worker
MonitorEnd ==
    /\ r_pc \in {"done", "failed"}
    /\ running' = running \ {"monitor"}
    /\ UNCHANGED << m_pc, exit_status, workers, runq, node_lock, s_pc, spin_pc, chan >>
    /\ ProcOnly

\* the task of line 115 runs spawn_monitor on a worker thread; nothing in
\* spawn_monitor awaits, so the task keeps the worker until it ends
PRender ==
    \/ OnWorker("monitor") /\ RenderEnableRawMode
    \/ OnWorker("monitor") /\ RenderEnterAlternateScreen
    \/ OnWorker("monitor") /\ RenderTerminalNew
    \/ OnWorker("monitor") /\ RenderLock
    \/ OnWorker("monitor") /\ RenderClone
    \/ OnWorker("monitor") /\ RenderDraw
    \/ OnWorker("monitor") /\ RenderPoll
    \/ OnWorker("monitor") /\ RenderRead
    \/ OnWorker("monitor") /\ RenderDisableRawMode
    \/ OnWorker("monitor") /\ RenderLeaveAlternateScreen
    \/ OnWorker("monitor") /\ RenderShowCursor
    \/ OnWorker("monitor") /\ MonitorEnd

PInit == UIdle /\ CIdle /\ \E w \in 1..MaxWorkers : PIdle(w)

PNext ==
    \/ PMain
    \/ \E t \in Tasks : Schedule(t)
    \/ PSubscriber
    \/ PSpin
    \/ PIngest
    \/ PRender

\* every thread that can take a step eventually takes one, and an idle
\* worker eventually takes a ready task; std::sync::Mutex promises no order
\* among the threads that wait for it
Fairness ==
    /\ WF_vars(PMain)
    /\ \A t \in Tasks : WF_vars(Schedule(t))
    /\ WF_vars(PSubscriber)
    /\ WF_vars(PSpin)
    /\ WF_vars(PIngest)
    /\ WF_vars(PRender)

SpecProc == PInit /\ [][PNext]_vars /\ Fairness

(***************************************************************************)
(* Claims about update_state as a function of the table and the report.    *)
(***************************************************************************)
\* the call that has just run: its report, its self and what it returned
Called == u_report # None
Rep == u_report[1]
Old == u_self[1]
OldStates == CategoryStates(Old, Rep.interface_type)
NewStates == CategoryStates(u_app, Rep.interface_type)

\* the report names a known category and its name parses to the ordinal k > 0
HasOrdinal(r) ==
    /\ r.interface_type \in Categories
    /\ LET p == ParsePos(r.name) IN p # None /\ p[1] > 0
Ord == ParsePos(Rep.name)[1]

\* the report is one of the three kinds that the table ignores
Ignored(r) ==
    \/ r.interface_type \notin Categories
    \/ LET p == ParsePos(r.name) IN p = None \/ p = Some(0)

\* the Activity a state string stands for
Reported(s) == IF s = "Active" THEN Active ELSE Inactive

\* C1: from the empty table, after any sequence of valid reports, the
\* length of each category's vector is the largest ordinal reported for
\* that category, and 0 for a category that received no report.
C1_LengthIsMaxOrdinal ==
    \A c \in Categories : Len(CategoryStates(u_app, c)) = u_max[c]

\* C1 witness: a report with a smaller ordinal has been applied to a
\* category that had already seen MaxOrd, another category has seen nothing.
C1_Witness ==
    /\ Called
    /\ u_max[Rep.interface_type] = MaxOrd
    /\ TrailingOrdinal(Rep.name) < MaxOrd
    /\ \E c \in Categories : u_max[c] = 0

\* C2: a report with ordinal 0, with a trailing token that does not parse
\* (an empty name included), or with an unknown interface_type, returns a
\* table equal to the input table.
C2_IgnoredReportNoEffect ==
    (Called /\ Ignored(Rep)) => u_app = Old

\* C2 witness: a report with ordinal 0 in a known category has been applied
\* to a table whose vector for that category is not empty.
C2_Witness ==
    /\ Called
    /\ Rep.interface_type \in Categories
    /\ ParsePos(Rep.name) = Some(0)
    /\ Len(OldStates) > 0
    /\ Rep.state = "Active"

\* C3: a valid report with ordinal k in category c changes at most slot k
\* of c: every other slot that existed keeps its value and the other two
\* categories are unchanged.
C3_OnlySlotChanges ==
    (Called /\ HasOrdinal(Rep)) =>
        /\ Len(NewStates) >= Len(OldStates)
        /\ LET k == Ord
           IN  \A i \in 1..Len(OldStates) : i # k => NewStates[i] = OldStates[i]
        /\ \A c \in Categories \ {Rep.interface_type} :
               CategoryStates(u_app, c) = CategoryStates(Old, c)

\* C3 witness: slot 1 of a two-slot vector has been overwritten with a new
\* value while slot 2 held Active and another category was not empty.
C3_Witness ==
    /\ Called /\ HasOrdinal(Rep)
    /\ Ord = 1
    /\ Len(OldStates) = 2
    /\ OldStates[2] = Active
    /\ NewStates[1] # OldStates[1]
    /\ \E c \in Categories \ {Rep.interface_type} : Len(CategoryStates(Old, c)) > 0

\* C4: a valid report with ordinal m applied to a vector of length n < m
\* gives a vector of length m whose slots n+1..m-1 are Inactive, whose slot
\* m holds the reported Activity and whose slots 1..n are unchanged.
C4_GrowFillsInactive ==
    (Called /\ HasOrdinal(Rep)) =>
        LET m == Ord
            n == Len(OldStates)
        IN  n < m =>
              /\ Len(NewStates) = m
              /\ \A i \in (n + 1)..(m - 1) : NewStates[i] = Inactive
              /\ NewStates[m] = Reported(Rep.state)
              /\ \A i \in 1..n : NewStates[i] = OldStates[i]

\* C4 witness: an Active report with ordinal MaxOrd has grown a vector by
\* at least two slots.
C4_Witness ==
    /\ Called /\ HasOrdinal(Rep)
    /\ Ord = MaxOrd
    /\ Len(OldStates) + 2 <= Ord
    /\ Rep.state = "Active"

\* C5: applying the same report a second time returns the table that the
\* first application returned.
C5_Idempotent ==
    Called => update_state(u_app, Rep) = u_app

\* C5 witness: a report that changed the table (it grew a vector) has been
\* applied.
C5_Witness ==
    /\ Called /\ HasOrdinal(Rep)
    /\ u_app # Old
    /\ Len(NewStates) > Len(OldStates) + 1

\* C6: the Activity written is Active exactly when the state string is
\* "Active"; every other string, case variants and the empty string
\* included, writes Inactive.
C6_ActiveOnlyForExactString ==
    (Called /\ HasOrdinal(Rep)) =>
        LET written == NewStates[Ord]
        IN  /\ written = Active <=> Rep.state = "Active"
            /\ written = Inactive <=> Rep.state # "Active"

\* C6 witness: a report whose state is the case variant "active" has
\* overwritten a slot that held Active.
C6_Witness ==
    /\ Called /\ HasOrdinal(Rep)
    /\ Rep.state = "active"
    /\ Len(OldStates) >= Ord
    /\ OldStates[Ord] = Active

(***************************************************************************)
(* Claims about the ingest loop and the render task sharing the table.     *)
(***************************************************************************)
\* the reports that a sequence of payloads decodes to, in order
RECURSIVE DecodedReports(_)
DecodedReports(msgs) ==
    IF msgs = << >> THEN << >>
    ELSE LET data == from_str(Head(msgs))
         IN  (IF data = None THEN << >> ELSE data) \o DecodedReports(Tail(msgs))

\* the table that folding update_state over a sequence of reports gives
RECURSIVE Fold(_)
Fold(reports) ==
    IF reports = << >> THEN App_new
    ELSE update_state(Fold(SubSeq(reports, 1, Len(reports) - 1)),
                      reports[Len(reports)])

Prefix(seq, k) == SubSeq(seq, 1, k)

\* C7: a payload that does not decode leaves the shared table unchanged and
\* the loop goes on: whenever the loop waits for the next message, the
\* shared table is the fold of update_state over the decodable messages
\* received, in order, every one of them applied.
C7_UndecodableDropped ==
    i_pc = "next" =>
        LET decoded == DecodedReports(received)
        IN  /\ applied = decoded
            /\ shared_app = Fold(decoded)

\* C7 witness: a payload that did not decode was followed by one that did
\* and that changed the table, and the loop waits for the next message.
C7_Witness ==
    /\ i_pc = "next"
    /\ \E i, j \in 1..Len(received) :
          /\ i < j
          /\ from_str(received[i]) = None
          /\ from_str(received[j]) # None
    /\ shared_app # App_new

\* C8: the writes reach the shared table in the order of receipt, one
\* message per write, and a snapshot taken after a write has completed
\* holds the fold over all the messages written until then.
C8_OrderedAndVisible ==
    /\ LET decoded == DecodedReports(received)
       IN  \E k \in 0..Len(decoded) :
              /\ applied = Prefix(decoded, k)
              /\ Len(decoded) - k <= 1
    /\ shared_app = Fold(applied)
    /\ app # None => app[1] = Fold(Prefix(applied, r_seen))

\* C8 witness: a snapshot was taken after the second write completed and
\* shows the second message's effect.
C8_Witness ==
    /\ app # None
    /\ r_seen >= 2
    /\ r_pc = "draw"
    /\ app[1] # Fold(Prefix(applied, 1))

\* C9: under every interleaving a snapshot is the fold of update_state over
\* a prefix of the decodable messages received so far, never a table with
\* a report partly applied.
C9_SnapshotIsPrefixFold ==
    app # None =>
        LET decoded == DecodedReports(received)
        IN  \E k \in 0..Len(decoded) : app[1] = Fold(Prefix(decoded, k))

\* C9 witness: the render task holds a snapshot with the first message's
\* effect while the ingest loop is about to store a message that grows a
\* vector by two slots.
C9_Witness ==
    /\ app # None
    /\ r_pc = "draw"
    /\ i_pc = "lock_store"
    /\ r_seen = 1
    /\ Len(applied) = 1
    /\ app[1] # App_new
    /\ Lengths(i_new[1]) # Lengths(app[1])

\* the terminal restoration sequence of lines 248-250
RestorationSequence == << "disable_raw_mode", "LeaveAlternateScreen", "show_cursor" >>

\* C10: once the key 'q' has been read the loop has been left, and when the
\* render task has ended the restoration sequence (disable raw mode, leave
\* the alternate screen, show the cursor) has executed exactly once.
C10_QuitRestoresExactlyOnce ==
    quit_seen =>
        /\ r_pc \in {"disable_raw_mode", "LeaveAlternateScreen", "show_cursor",
                     "done", "failed"}
        /\ r_pc \in {"done", "failed"} => restored = RestorationSequence

\* C12: when the stream yields no next item the ingest loop logs the
\* condition and exits: once it has logged, the loop has been left and no
\* further iteration starts.
C12_StreamEndExitsLoop ==
    i_logged > 0 => i_pc = "returned"

\* the terminal has been switched to raw mode and the alternate screen
Switched ==
    alt_screen \/ \E i \in 1..Len(restored) : restored[i] = "LeaveAlternateScreen"

\* C13: on every path by which the render task ends after the terminal was
\* switched, a failure of draw, poll or read included, the three
\* restoration steps have been executed.
C13_RestoredOnEveryExit ==
    (r_pc \in {"done", "failed"} /\ Switched) =>
        \A step \in {"disable_raw_mode", "LeaveAlternateScreen", "show_cursor"} :
            \E i \in 1..Len(restored) : restored[i] = step

\* C15: the table mutex is never held across I/O: the render task holds it
\* only at the snapshot copy, never while drawing or polling, and the ingest
\* loop holds it only at its copy and at its store, never while awaiting a
\* message or decoding.
C15_LockNotHeldAcrossIO ==
    /\ app_lock = "render" <=> r_pc = "clone"
    /\ app_lock = "ingest" <=> i_pc \in {"clone", "store"}

\* C15 witness: the ingest loop holds the mutex for its store while the
\* render task, having drawn a frame, waits to take the next snapshot.
C15_Witness ==
    /\ app_lock = "ingest"
    /\ i_pc = "store"
    /\ r_pc = "lock"
    /\ frame # None

\* C17: a snapshot is an independent copy: a step of the ingest loop, its
\* store included, leaves the snapshot as it was, and a step of the render
\* task leaves the shared table as it was.
C17_SnapshotIndependent ==
    [][ /\ i_pc' # i_pc => app' = app
        /\ shared_app' # shared_app => app' = app
        /\ r_pc' # r_pc => shared_app' = shared_app ]_vars

\* C17 witness: while the frame of a snapshot is being drawn, a store has
\* made the shared table differ from the snapshot.
C17_Witness ==
    /\ app # None
    /\ r_pc = "draw"
    /\ r_seen < Len(applied)
    /\ app[1] # shared_app

\* C19: no update is lost by the two-step write: from the copy to the
\* store the shared table equals the copy, the table to be stored is
\* update_state of the shared table as it is then, and no step shrinks a
\* vector of the shared table.
C19_NoLostUpdate ==
    /\ [](i_pc \in {"decode", "update", "lock_store", "store"} =>
             shared_app_local = Some(shared_app))
    /\ [](i_pc \in {"lock_store", "store"} =>
             i_new = Some(update_state(shared_app, i_data[1])))
    /\ [][\A c \in Categories :
             Len(CategoryStates(shared_app', c)) >= Len(CategoryStates(shared_app, c))]_vars

\* C19 witness: the ingest loop is at its store with a table that grows a
\* vector, after an earlier store, and the render task took a snapshot in
\* between.
C19_Witness ==
    /\ i_pc = "store"
    /\ Len(applied) >= 1
    /\ Lengths(i_new[1]) # Lengths(shared_app)
    /\ app # None
    /\ r_seen = Len(applied)
    /\ r_pc = "draw"

\* the positions of the render loop (lines 177-246)
LoopPositions == {"lock", "clone", "draw", "poll", "read"}

\* the render task leaves its loop in this step
LeavesLoop == r_pc \in LoopPositions /\ r_pc' \notin LoopPositions

\* C18, as stated: the render loop leaves its cycle only when a key-press
\* event for the character 'q' is read.
C18_LeavesOnlyOnQuitPress ==
    [][LeavesLoop =>
          /\ r_pc = "read"
          /\ r_event' = Some([event |-> "Key", code |-> "q", kind |-> "Press"])]_vars

\* C18, amended: the render loop leaves its cycle only when a key event
\* with code 'q' is read or when draw, poll or read returns an error; after
\* a poll timeout, any other key and any event that is no key event it goes
\* back to step 1, and every iteration takes a fresh snapshot of the shared
\* table and draws it.
C18_LeavesOnQuitKeyOrError ==
    [][ /\ LeavesLoop =>
              \/ r_pc' = "failed" /\ r_pc \in {"draw", "poll", "read"}
              \/ /\ r_pc = "read"
                 /\ r_pc' = "disable_raw_mode"
                 /\ r_event' # None
                 /\ r_event'[1].event = "Key"
                 /\ r_event'[1].code = "q"
        /\ (r_pc = "read" /\ r_pc' # r_pc /\ r_pc' # "failed") =>
              /\ r_event' # None
              /\ IF r_event'[1].event = "Key" /\ r_event'[1].code = "q"
                 THEN r_pc' = "disable_raw_mode"
                 ELSE r_pc' = "lock"
        /\ (r_pc = "poll" /\ r_pc' # r_pc) => r_pc' \in {"read", "lock", "failed"}
        /\ (r_pc = "lock" /\ r_pc' # r_pc) => r_pc' = "clone"
        /\ (r_pc = "clone" /\ r_pc' # r_pc) =>
              r_pc' = "draw" /\ app' = Some(shared_app)
        /\ (r_pc = "draw" /\ r_pc' # r_pc) =>
              \/ r_pc' = "failed"
              \/ r_pc' = "poll" /\ frame' = app ]_vars

\* C18 witness: after a frame was drawn a key other than 'q' was read and
\* the loop is back at step 1.
C18_Witness ==
    /\ r_pc = "lock"
    /\ frame # None
    /\ r_event # None
    /\ r_event[1].event = "Key"
    /\ r_event[1].code # "q"

(***************************************************************************)
(* Claims about the process, under SpecProc.                               *)
(***************************************************************************)

\* main has returned Ok(()): the process has exited with status 0
ExitedClean == m_pc = "exited" /\ exit_status = Some(0)

\* the process has exited with a status other than 0
ExitedFailure == m_pc = "exited" /\ exit_status # None /\ exit_status[1] # 0

\* C11: after the Render Loop observes the quit keystroke (and
\* spawn_monitor has restored the terminal and returned Ok), the process
\* eventually terminates, with exit status 0.
C11_QuitTerminatesProcess ==
    (quit_seen /\ r_pc = "done") ~> ExitedClean

\* a setup step has failed: the subscription (line 137), or one of
\* enable_raw_mode, EnterAlternateScreen and Terminal::new (lines 171-175),
\* which fail before the first snapshot is taken
SetupFailed ==
    \/ s_pc = "panicked"
    \/ r_pc = "failed" /\ app = None

\* C14: a setup failure is fatal: the process terminates with a non-zero
\* exit status (context and node creation exit in the step that fails).
C14_SetupFailureFatal ==
    SetupFailed ~> ExitedFailure

\* C16: every message the transport has delivered is eventually taken by
\* the Ingest Loop and applied or dropped, whatever the number of workers.
C16_IngestNotStarved ==
    (chan # << >>) ~> (chan = << >> /\ i_pc = "next")

\* C20: the subscriber task's acquisition of the node mutex eventually
\* succeeds although the spin thread acquires the same mutex in a loop.
C20_SubscriptionEstablished ==
    ("subscriber" \in running /\ s_pc = "lock") ~> (s_pc # "lock")

====
